---- MODULE Spec2Model ----
(***************************************************************************)
(* Pgym booking application (src/app.py): the booking handler `book`, the  *)
(* Personal-slot generator `upsert_personal_slots` and the slot cutter     *)
(* `slot_ranges_for_personal`, over the relational store of the models.    *)
(*                                                                         *)
(* The store is the set of committed rows of each table.  A request        *)
(* handler works in its own database session: rows it flushed but has not  *)
(* committed are private to it (rq[r].pending) and reach the store only at *)
(* commit.  Dates are day numbers, times are minutes since midnight.       *)
(***************************************************************************)
EXTENDS Integers, Sequences, FiniteSets, Bags, TLC

VARIABLES
    members,      \* committed Member rows        [id, name, email]
    classes,      \* committed ClassSession rows  [id, title, coach, date, start_time, end_time, capacity, location]
    bookings,     \* committed Booking rows       [member_id, class_id], a bag: the
                  \* table may hold several rows with the same columns
    packages,     \* committed Package rows       [id, member_id, total, remaining, activated_at]
    rq,           \* the book request handlers in flight, one record per worker
    snap,         \* history: the store when the request in progress started
    appSettings,  \* committed AppSettings rows  [id, weeks_ahead, personal_capacity,
                  \*                              personal_duration_min, personal_coach]
    today,        \* date.today(), a day number; day 0 is a Monday
    gen,          \* history of the passes of upsert_personal_slots
    gp,           \* the passes of upsert_personal_slots in flight, one record per process
    cut,          \* a call of slot_ranges_for_personal in progress
    tokens,       \* committed MagicToken rows    [token, member_id, expires_at, used]
    now,          \* datetime.utcnow(), in minutes
    ml,           \* the magic_login_token handlers in flight, one record per worker
    logins,       \* history: the member sessions magic links have opened, in order
    es            \* the ensure_settings calls in progress, one record per caller

vars == <<members, classes, bookings, packages, rq, snap, appSettings, today, gen, gp, cut,
          tokens, now, ml, logins, es>>

bookVars == <<members, classes, bookings, packages, rq, snap>>
genVars == <<appSettings, today, gen, gp>>
magicVars == <<tokens, now, ml, logins>>

-----------------------------------------------------------------------------
(* Bounds of the model *)

MaxMembers == 3      \* Member rows (committed or flushed) the model lets exist
MaxCapacity == 2     \* largest capacity of an initial session
MaxRemaining == 1    \* largest remaining count of an initial package
MaxSlots == 30       \* slots one call of slot_ranges_for_personal may append
MaxDay == 1          \* latest day number date.today() takes
MaxWeeks == 1        \* largest weeks_ahead the administration stores
MaxPasses == 2       \* passes of upsert_personal_slots, one after another
MaxConcPasses == 3   \* passes of upsert_personal_slots when they may overlap

\* personal_duration_min values tried
Durations == {-60, 0, 30, 45, 60, 90, 720, 780, 1000, 1080, 1440}

\* No pass of the generator has run
NoPass == [passes |-> 0, outcome |-> "none", day |-> 0, settings |-> "none",
           before |-> {}, alone |-> TRUE, prev |-> "none"]

\* The generator processes
Passes == {1, 2}

\* No pass is in flight in the process
IdlePass == [pc |-> "idle", settings |-> "none", day |-> 0, todo |-> << >>,
             pending |-> {}, alone |-> TRUE]

\* No call of slot_ranges_for_personal is in progress
NoCut == [pc |-> "none", wd |-> 0, dur |-> 0, blocks |-> << >>, start_h |-> 0,
          end_h |-> 0, cur_dt |-> 0, first |-> 0, slots |-> << >>]

\* The request workers: the races of the booking claims are between two requests
Reqs == {1, 2}

\* No magic link is being redeemed by the worker
IdleRedeem == [pc |-> "idle", token |-> 0, mt |-> "None", outcome |-> ""]

\* The callers of ensure_settings: request handlers and generator passes
Callers == {1, 2, 3}

\* No call of ensure_settings is in progress in the caller
IdleEnsure == [pc |-> "idle", s |-> "None"]
Names == {"ann", "bob"}
Emails == {"a@x", "b@x"}

-----------------------------------------------------------------------------
(* Column values *)

\* SQL NULL / Python None
None == "None"

\* `x or None` on a string (lines 140, 332)
OrNone(s) == IF s = "" THEN None ELSE s

\* DEFAULT_LOCATION (line 13)
DEFAULT_LOCATION == "Pgym 2.0"

\* The next integer primary key of a table
NextId(rows) ==
    IF rows = {} THEN 1
    ELSE (CHOOSE i \in {x.id : x \in rows} : \A y \in rows : y.id <= i) + 1

\* The Booking rows of a session: cs.bookings (line 45)
BookingsOf(rows, class_id) ==
    LET of == {b \in BagToSet(rows) : b.class_id = class_id}
    IN  [b \in of |-> rows[b]]

Store == [members |-> members, classes |-> classes,
          bookings |-> bookings, packages |-> packages]

NoSnap == [members |-> {}, classes |-> {}, bookings |-> EmptyBag, packages |-> {}]

-----------------------------------------------------------------------------
(* Constraints of the schema *)

\* Member.email unique=True (line 33); NULLs do not collide
UqMemberEmail(rows, new) ==
    new.email = None \/ \A m \in rows : m.email # new.email

UqMemberClassDropped(rows, new) == TRUE

\* UniqueConstraint("member_id", "class_id") of Booking (line 53)
UqMemberClass(rows, new) ==
    \A b \in BagToSet(rows) : ~(b.member_id = new.member_id /\ b.class_id = new.class_id)

\* ForeignKey("class_session.id") of Booking.class_id (line 50)
FkClassSession(rows, new) == \E c \in rows : c.id = new.class_id

\* A relationship without the cascade: the bookings of the session stay
CascadeKeepsBookings(rows, class_id) == rows

\* cascade="all, delete-orphan" of ClassSession.bookings (line 45): the
\* Booking rows left when the session class_id is deleted
CascadeDelete(rows, class_id) == rows (-) BookingsOf(rows, class_id)

-----------------------------------------------------------------------------
(* Database session *)

SessionRollbackKeeps(rows, pending) == rows \cup pending

\* db.session.rollback(): the flushed rows are discarded
SessionRollback(rows, pending) == rows

\* db.session.commit(): the flushed rows become visible
SessionCommit(rows, pending) == rows \cup pending

-----------------------------------------------------------------------------
(* Credit *)

\* member_remaining_entries over a given Package table
RemainingEntries(pkgs, member_id) ==
    LET own == {p \in pkgs : p.member_id = member_id} IN
    IF own = {} THEN 0
    ELSE (CHOOSE p \in own : \A q \in own : q.activated_at <= p.activated_at).remaining

member_remaining_entries(member_id) == RemainingEntries(packages, member_id)

-----------------------------------------------------------------------------
(* book (lines 320-340) *)

IdleReq == [pc |-> "idle", method |-> "", class_id |-> 0, name |-> "", email |-> "",
            loaded |-> 0, capacity |-> 0, spots_left |-> 0,
            member_id |-> 0, new_member |-> FALSE, pending |-> {}, outcome |-> ""]

AllPending == UNION {rq[r].pending : r \in Reqs}

IsFullOffByOne(n, capacity) == n > capacity

\* len(cs.bookings) >= cs.capacity (line 334)
IsFull(n, capacity) == n >= capacity

\* lines 322-327: get_or_404, the lazy load of cs.bookings for spots_left
\* (rq[r].loaded is the length of the collection the session then holds),
\* the GET page, the form fields of a POST
BookLoad(r, method, class_id, name, email) ==
    /\ rq[r].pc = "idle"
    /\ LET found == {c \in classes : c.id = class_id} IN
       IF found = {}
       THEN rq' = [rq EXCEPT ![r] = [IdleReq EXCEPT !.pc = "done", !.method = method,
                                         !.class_id = class_id, !.outcome = "NotFound"]]
       ELSE LET cs == CHOOSE c \in found : TRUE
                loaded == BagCardinality(BookingsOf(bookings, cs.id))
            IN  rq' = [rq EXCEPT ![r] =
                    [IdleReq EXCEPT !.pc = IF method = "GET" THEN "done" ELSE "form",
                                    !.method = method,
                                    !.class_id = class_id,
                                    !.name = IF method = "GET" THEN "" ELSE name,
                                    !.email = IF method = "GET" THEN "" ELSE email,
                                    !.loaded = loaded,
                                    !.capacity = cs.capacity,
                                    !.spots_left = cs.capacity - loaded,
                                    !.outcome = IF method = "GET" THEN "Page" ELSE ""]]
    /\ UNCHANGED <<members, classes, bookings, packages>>

\* lines 328-331: the member by email, else by name; .first() of a query
\* without ORDER BY is any matching row
BookResolve(r) ==
    /\ rq[r].pc = "form"
    /\ LET byEmail == IF rq[r].email # "" THEN {m \in members : m.email = rq[r].email} ELSE {}
           byName  == IF byEmail = {} /\ rq[r].name # ""
                      THEN {m \in members : m.name = rq[r].name} ELSE {}
           matches == IF byEmail # {} THEN byEmail ELSE byName
       IN  IF matches = {}
           THEN rq' = [rq EXCEPT ![r].pc = "create"]
           ELSE \E m \in matches :
                    rq' = [rq EXCEPT ![r].pc = "resolved", ![r].member_id = m.id]
    /\ UNCHANGED <<members, classes, bookings, packages>>

\* lines 332-333: Member(...) is added and flushed.  The INSERT waits for a
\* session holding an uncommitted row with the same email, and fails on a
\* committed one.
BookFlush(r) ==
    /\ rq[r].pc = "create"
    /\ Cardinality(members \cup AllPending) < MaxMembers
    /\ LET new == [id    |-> NextId(members \cup AllPending),
                   name  |-> IF rq[r].name = "" THEN "Cliente" ELSE rq[r].name,
                   email |-> OrNone(rq[r].email)]
       IN  /\ UqMemberEmail(AllPending, new)
           /\ IF UqMemberEmail(members, new)
              THEN rq' = [rq EXCEPT ![r].pc = "resolved", ![r].member_id = new.id,
                                    ![r].new_member = TRUE, ![r].pending = {new}]
              ELSE rq' = [rq EXCEPT ![r].pc = "done",
                                    ![r].outcome = "IntegrityError:member.email"]
    /\ UNCHANGED <<members, classes, bookings, packages>>

\* lines 334-335: the session is full; flash "Capienza raggiunta.", rollback
BookFull(r) ==
    /\ rq[r].pc = "resolved"
    /\ IsFull(rq[r].loaded, rq[r].capacity)
    /\ members' = SessionRollback(members, rq[r].pending)
    /\ rq' = [rq EXCEPT ![r].pc = "done", ![r].pending = {},
                        ![r].outcome = "CapacityExceeded"]
    /\ UNCHANGED <<classes, bookings, packages>>

\* lines 336-339: the Booking is added and committed.  A violation of
\* uq_member_class, or of the foreign key to a session deleted since line 322,
\* raises IntegrityError, which book does not catch.
BookInsert(r) ==
    /\ rq[r].pc = "resolved"
    /\ ~IsFull(rq[r].loaded, rq[r].capacity)
    /\ LET booking == [member_id |-> rq[r].member_id, class_id |-> rq[r].class_id]
       IN  IF ~FkClassSession(classes, booking)
           THEN /\ members' = SessionRollback(members, rq[r].pending)
                /\ bookings' = bookings
                /\ rq' = [rq EXCEPT ![r].pc = "done", ![r].pending = {},
                                    ![r].outcome = "IntegrityError:booking.class_id"]
           ELSE IF UqMemberClass(bookings, booking)
           THEN /\ members' = SessionCommit(members, rq[r].pending)
                /\ bookings' = bookings (+) SetToBag({booking})
                /\ rq' = [rq EXCEPT ![r].pc = "done", ![r].pending = {},
                                    ![r].outcome = "Booked"]
           ELSE /\ members' = SessionRollback(members, rq[r].pending)
                /\ bookings' = bookings
                /\ rq' = [rq EXCEPT ![r].pc = "done", ![r].pending = {},
                                    ![r].outcome = "IntegrityError:uq_member_class"]
    /\ UNCHANGED <<classes, packages>>

\* the response is sent and the worker takes the next request
BookReturn(r) ==
    /\ rq[r].pc = "done"
    /\ rq' = [rq EXCEPT ![r] = IdleReq]
    /\ UNCHANGED <<members, classes, bookings, packages>>

-----------------------------------------------------------------------------
(* Initial store: two members, two hand-made sessions, packages of member 1 *)

InitMembers == {[id |-> 1, name |-> "ann", email |-> "a@x"],
                [id |-> 2, name |-> "bob", email |-> None]}

Yoga(id, capacity) ==
    [id |-> id, title |-> "Yoga", coach |-> None, date |-> 0, start_time |-> 600,
     end_time |-> 660, capacity |-> capacity, location |-> DEFAULT_LOCATION]

Pkg(id, member_id, remaining, activated_at) ==
    [id |-> id, member_id |-> member_id, total |-> MaxRemaining,
     remaining |-> remaining, activated_at |-> activated_at]

InitPackages ==
    {{}} \cup {{Pkg(1, 1, n, 1)} : n \in 0..MaxRemaining}
         \cup {{Pkg(1, 1, MaxRemaining, 1), Pkg(2, 1, 0, 2)}}

Init ==
    /\ members = InitMembers
    /\ \E c \in 1..MaxCapacity : classes = {Yoga(1, c), Yoga(2, 1)}
    /\ bookings = EmptyBag
    /\ packages \in InitPackages
    /\ rq = [r \in Reqs |-> IdleReq]
    /\ snap = NoSnap
    /\ appSettings = {}
    /\ today = 0
    /\ gen = NoPass
    /\ gp = [p \in Passes |-> IdlePass]
    /\ tokens = {} /\ now = 0 /\ logins = << >>
    /\ ml = [r \in Reqs |-> IdleRedeem]
    /\ es = [p \in Callers |-> IdleEnsure]
    /\ cut = NoCut

ClassIds == {1, 2, 3}

\* Requests handled one after another
Next ==
    \/ \E r \in Reqs, method \in {"GET", "POST"}, class_id \in ClassIds,
          name \in Names \cup {""}, email \in Emails \cup {""} :
          /\ \A q \in Reqs : rq[q].pc = "idle"
          /\ BookLoad(r, method, class_id, name, email)
          /\ snap' = Store
          /\ UNCHANGED <<genVars, cut, magicVars, es>>
    \/ (\E r \in Reqs : BookResolve(r)) /\ UNCHANGED <<snap, genVars, cut, magicVars, es>>
    \/ (\E r \in Reqs : BookFlush(r)) /\ UNCHANGED <<snap, genVars, cut, magicVars, es>>
    \/ (\E r \in Reqs : BookFull(r)) /\ UNCHANGED <<snap, genVars, cut, magicVars, es>>
    \/ (\E r \in Reqs : BookInsert(r)) /\ UNCHANGED <<snap, genVars, cut, magicVars, es>>
    \/ (\E r \in Reqs : BookReturn(r)) /\ snap' = NoSnap /\ UNCHANGED <<genVars, cut, magicVars, es>>

Spec == Init /\ [][Next]_vars

\* Requests handled concurrently, their statements interleaved.  The forms
\* submitted name member 1, name member 2, or give the email of no member.
ConcForms == {<<"ann", "">>, <<"bob", "">>, <<"", "b@x">>}

InitConc ==
    /\ members = InitMembers
    /\ \E c \in 1..MaxCapacity : classes = {Yoga(1, c), Yoga(2, 1)}
    /\ bookings = EmptyBag
    /\ packages = {}
    /\ rq = [r \in Reqs |-> IdleReq]
    /\ snap = NoSnap
    /\ appSettings = {}
    /\ today = 0
    /\ gen = NoPass
    /\ gp = [p \in Passes |-> IdlePass]
    /\ tokens = {} /\ now = 0 /\ logins = << >>
    /\ ml = [r \in Reqs |-> IdleRedeem]
    /\ es = [p \in Callers |-> IdleEnsure]
    /\ cut = NoCut

NextConc ==
    \/ \E r \in Reqs, method \in {"GET", "POST"}, class_id \in ClassIds, form \in ConcForms :
          BookLoad(r, method, class_id, form[1], form[2]) /\ UNCHANGED <<snap, genVars, cut, magicVars, es>>
    \/ (\E r \in Reqs : BookResolve(r)) /\ UNCHANGED <<snap, genVars, cut, magicVars, es>>
    \/ (\E r \in Reqs : BookFlush(r)) /\ UNCHANGED <<snap, genVars, cut, magicVars, es>>
    \/ (\E r \in Reqs : BookFull(r)) /\ UNCHANGED <<snap, genVars, cut, magicVars, es>>
    \/ (\E r \in Reqs : BookInsert(r)) /\ UNCHANGED <<snap, genVars, cut, magicVars, es>>
    \/ (\E r \in Reqs : BookReturn(r)) /\ UNCHANGED <<snap, genVars, cut, magicVars, es>>

SpecConc == InitConc /\ [][NextConc]_vars

-----------------------------------------------------------------------------
(* slot_ranges_for_personal (lines 109-126) *)

\* Minutes of a day: datetime.time() keeps the time of day of a datetime
MinutesPerDay == 1440

\* datetime.time() of a datetime given in minutes since the midnight of `day`
TimeOf(dt) == dt % MinutesPerDay

\* time(hour=h)
HourTime(h) == h * 60

\* day.weekday(): day 0 is a Monday
Weekday(day) == day % 7

\* lines 120-125: the blocks (start_h, end_h) of a weekday, in call order
Blocks(wd) ==
    IF wd \in {0, 2, 4} THEN << <<8, 20>> >>
    ELSE IF wd \in {1, 3} THEN << <<6, 20>> >>
    ELSE IF wd = 5 THEN << <<9, 11>>, <<16, 19>> >>
    ELSE << >>

\* A loop that also breaks off the slot ending exactly at end_h:00
CutDropsLastSlot(cur_dt, end_h, dur) ==
    IF ~(TimeOf(cur_dt) < HourTime(end_h)) THEN "exit"
    ELSE IF TimeOf(cur_dt + dur) >= HourTime(end_h) THEN "break"
    ELSE "append"

\* lines 115-117: one test of the while loop at cur_dt
\*   "exit"   the loop condition is false
\*   "break"  the slot would end after end_h:00 (by time of day)
\*   "append" the slot is appended and the loop goes on from its end
Cut(cur_dt, end_h, dur) ==
    IF ~(TimeOf(cur_dt) < HourTime(end_h)) THEN "exit"
    ELSE IF TimeOf(cur_dt + dur) > HourTime(end_h) THEN "break"
    ELSE "append"

\* line 118: the tuple appended
SlotAt(cur_dt, dur) == <<TimeOf(cur_dt), TimeOf(cur_dt + dur)>>

\* lines 112-114 and 120-125: the next add_block call; cut.first is a history
\* field, the number of slots appended before this block
AddBlock ==
    /\ cut.pc = "call" /\ cut.blocks # << >>
    /\ cut' = [cut EXCEPT !.pc = "loop",
                          !.start_h = Head(cut.blocks)[1],
                          !.end_h = Head(cut.blocks)[2],
                          !.cur_dt = HourTime(Head(cut.blocks)[1]),
                          !.first = Len(cut.slots),
                          !.blocks = Tail(cut.blocks)]
    /\ UNCHANGED <<bookVars, genVars, magicVars, es>>

\* lines 115-119: an iteration that appends a slot
CutSlot ==
    /\ cut.pc = "loop"
    /\ Cut(cut.cur_dt, cut.end_h, cut.dur) = "append"
    /\ Len(cut.slots) < MaxSlots
    /\ cut' = [cut EXCEPT !.slots = Append(cut.slots, SlotAt(cut.cur_dt, cut.dur)),
                          !.cur_dt = cut.cur_dt + cut.dur]
    /\ UNCHANGED <<bookVars, genVars, magicVars, es>>

\* lines 115 and 117: the loop ends, add_block returns
LeaveBlock ==
    /\ cut.pc = "loop"
    /\ Cut(cut.cur_dt, cut.end_h, cut.dur) \in {"exit", "break"}
    /\ cut' = [cut EXCEPT !.pc = "call"]
    /\ UNCHANGED <<bookVars, genVars, magicVars, es>>

\* line 126: return slots
ReturnSlots ==
    /\ cut.pc = "call" /\ cut.blocks = << >>
    /\ cut' = [cut EXCEPT !.pc = "returned"]
    /\ UNCHANGED <<bookVars, genVars, magicVars, es>>

InitSlots ==
    /\ members = {} /\ classes = {} /\ bookings = EmptyBag /\ packages = {}
    /\ rq = [r \in Reqs |-> IdleReq]
    /\ snap = NoSnap
    /\ appSettings = {}
    /\ today = 0
    /\ gen = NoPass
    /\ gp = [p \in Passes |-> IdlePass]
    /\ tokens = {} /\ now = 0 /\ logins = << >>
    /\ ml = [r \in Reqs |-> IdleRedeem]
    /\ es = [p \in Callers |-> IdleEnsure]
    /\ \E day \in 0..6, dur \in Durations :
          cut = [NoCut EXCEPT !.pc = "call", !.wd = Weekday(day), !.dur = dur,
                              !.blocks = Blocks(Weekday(day))]

NextSlots == AddBlock \/ CutSlot \/ LeaveBlock \/ ReturnSlots

SpecSlots == InitSlots /\ [][NextSlots]_vars

\* The slots appended for the block being cut
BlockSlots == SubSeq(cut.slots, cut.first + 1, Len(cut.slots))

\* C10: for a positive duration the slots of a block are contiguous and lie in
\* the block: the first starts at start_h:00, each ends dur minutes after it
\* starts, each next one starts where the previous ends, and
\* start_h:00 <= start < end <= end_h:00 for every slot.
SlotsContiguousInBlock ==
    (cut.pc = "loop" /\ cut.dur > 0) =>
        LET S == BlockSlots IN
        /\ (Len(S) > 0 => S[1][1] = HourTime(cut.start_h))
        /\ \A i \in 1..Len(S) :
              /\ S[i][2] = S[i][1] + cut.dur
              /\ HourTime(cut.start_h) <= S[i][1]
              /\ S[i][1] < S[i][2]
              /\ S[i][2] <= HourTime(cut.end_h)
        /\ \A i \in 1..(Len(S) - 1) : S[i + 1][1] = S[i][2]

\* The hourly slots from a:00 to b:00
HourSlots(a, b) == [i \in 1..(b - a) |-> <<HourTime(a + i - 1), HourTime(a + i)>>]

\* The slots of a weekday when every slot lasts one hour
HourlyDay(wd) ==
    IF wd \in {0, 2, 4} THEN HourSlots(8, 20)
    ELSE IF wd \in {1, 3} THEN HourSlots(6, 20)
    ELSE IF wd = 5 THEN HourSlots(9, 11) \o HourSlots(16, 19)
    ELSE << >>

\* C11: with a duration of 60 minutes the call returns exactly the hourly
\* slots of the weekday's template: 12 on Monday, Wednesday and Friday (08-20),
\* 14 on Tuesday and Thursday (06-20), 5 on Saturday (09-10, 10-11, 16-17,
\* 17-18, 18-19); on Sunday it returns no slot whatever the duration.
HourlySlotsAtSixty ==
    cut.pc = "returned" =>
        /\ cut.dur = 60 =>
              /\ cut.slots = HourlyDay(cut.wd)
              /\ Len(cut.slots) = (IF cut.wd \in {0, 2, 4} THEN 12
                                   ELSE IF cut.wd \in {1, 3} THEN 14
                                   ELSE IF cut.wd = 5 THEN 5 ELSE 0)
        /\ cut.wd = 6 => cut.slots = << >>

\* A Saturday cut in hours: both blocks were cut, five slots came back
SaturdayCutInHours ==
    /\ cut.pc = "returned" /\ cut.dur = 60 /\ cut.wd = 5
    /\ cut.slots[1] = <<HourTime(9), HourTime(10)>>
    /\ Len(cut.slots) = 5
    /\ cut.slots[5] = <<HourTime(18), HourTime(19)>>

\* C12: with a zero or negative duration the call for a day that has a
\* template block appends no slot and does not return slots to the pass: it
\* stops with an invalid-configuration failure.
NonPositiveDurationCutsNothing ==
    (cut.dur <= 0 /\ cut.wd # 6) =>
        /\ cut.slots = << >>
        /\ cut.pc # "returned"

-----------------------------------------------------------------------------
(* slot_ranges_for_personal as a function of the day and the duration *)

\* The while loop of add_block from cur_dt on.  `seen` holds the times of day
\* the loop head has been at: the loop reads only the time of day of cur_dt,
\* so once one comes back the loop appends slots for ever.
RECURSIVE CutAll(_, _, _, _, _)
CutAll(cur_dt, end_h, dur, slots, seen) ==
    IF Cut(cur_dt, end_h, dur) # "append" THEN [slots |-> slots, hangs |-> FALSE]
    ELSE IF TimeOf(cur_dt) \in seen THEN [slots |-> slots, hangs |-> TRUE]
    ELSE CutAll(cur_dt + dur, end_h, dur, Append(slots, SlotAt(cur_dt, dur)),
                seen \cup {TimeOf(cur_dt)})

\* The add_block calls of a day, in order
RECURSIVE AddBlocks(_, _, _)
AddBlocks(blocks, dur, slots) ==
    IF blocks = << >> THEN [slots |-> slots, hangs |-> FALSE]
    ELSE LET r == CutAll(HourTime(Head(blocks)[1]), Head(blocks)[2], dur, slots, {})
         IN  IF r.hangs THEN r ELSE AddBlocks(Tail(blocks), dur, r.slots)

slot_ranges_for_personal(day, dur) == AddBlocks(Blocks(Weekday(day)), dur, << >>)

-----------------------------------------------------------------------------
(* upsert_personal_slots (lines 128-146) *)

\* daterange (lines 97-99)
daterange(start_date, end_date) ==
    [n \in 1..(end_date - start_date + 1) |-> start_date + (n - 1)]

\* AppSettings() with the column defaults (lines 57-60)
DefaultSettings ==
    [id |-> 1, weeks_ahead |-> 4, personal_capacity |-> 2,
     personal_duration_min |-> 60, personal_coach |-> ""]

\* ensure_settings (lines 101-107): the table after the call
ensure_settings(rows) == IF rows = {} THEN {DefaultSettings} ELSE rows

PersonalExistsNoLocation(rows, d, start, end) ==
    \E c \in rows : /\ c.title = "Personal" /\ c.date = d /\ c.start_time = start
                    /\ c.end_time = end /\ c.location = None

\* lines 134-136: the exists query; the session autoflushes, so the rows the
\* pass has added are seen
PersonalExists(rows, d, start, end) ==
    \E c \in rows : /\ c.title = "Personal" /\ c.date = d /\ c.start_time = start
                    /\ c.end_time = end /\ c.location = DEFAULT_LOCATION

\* lines 138-144
PersonalSession(id, settings, d, start, end) ==
    [id |-> id, title |-> "Personal", coach |-> OrNone(settings.personal_coach),
     date |-> d, start_time |-> start, end_time |-> end,
     capacity |-> settings.personal_capacity, location |-> DEFAULT_LOCATION]

\* A loop that first drops the Personal sessions of day d and makes them anew
UpsertDayRegenerates(slots, d, settings, rows) ==
    LET kept == {c \in rows : ~(c.title = "Personal" /\ c.date = d)}
        fresh == {i \in 1..Len(slots) : \A j \in 1..(i - 1) : slots[j] # slots[i]}
        n == Cardinality(rows)
    IN  kept \cup {PersonalSession(n + Cardinality({j \in fresh : j <= i}), settings, d,
                                   slots[i][1], slots[i][2]) : i \in fresh}

\* lines 133-145: the inner loop over the slots of day d.  A slot gets a row
\* when the exists query finds none: none in `rows`, and none added for an
\* equal slot earlier in this loop (the query autoflushes).  Ids follow the
\* order of the inserts.
UpsertDay(slots, d, settings, rows) ==
    LET fresh == {i \in 1..Len(slots) :
                     /\ ~PersonalExists(rows, d, slots[i][1], slots[i][2])
                     /\ \A j \in 1..(i - 1) : slots[j] # slots[i]}
        n == Cardinality(rows)
    IN  rows \cup {PersonalSession(n + Cardinality({j \in fresh : j <= i}), settings, d,
                                   slots[i][1], slots[i][2]) : i \in fresh}

\* lines 132-145: the outer loop over the days, from day i.  The result is
\* the ClassSession table the commit would write, or a hang of the pass in
\* slot_ranges_for_personal.
RECURSIVE UpsertDays(_, _, _, _)
UpsertDays(days, i, settings, rows) ==
    IF i > Len(days) THEN [rows |-> rows, hangs |-> FALSE]
    ELSE LET r == slot_ranges_for_personal(days[i], settings.personal_duration_min)
         IN  IF r.hangs THEN [rows |-> rows, hangs |-> TRUE]
             ELSE UpsertDays(days, i + 1, settings,
                             UpsertDay(r.slots, days[i], settings, rows))

\* lines 129-145 for the settings row read at line 129
Upsert(settings) ==
    UpsertDays(daterange(today, today + 7 * settings.weeks_ahead), 1, settings, classes)

\* A pass that completes: line 146 commits the rows added
GenPass ==
    /\ gen.passes < MaxPasses
    /\ \E settings \in ensure_settings(appSettings) :
          LET r == Upsert(settings) IN
          /\ ~r.hangs
          /\ classes' = r.rows
          /\ gen' = [passes |-> gen.passes + 1, outcome |-> "done", day |-> today,
                     settings |-> settings, before |-> classes, alone |-> TRUE,
                     prev |-> [outcome |-> gen.outcome, day |-> gen.day,
                               settings |-> gen.settings]]
    /\ appSettings' = ensure_settings(appSettings)
    /\ UNCHANGED <<members, bookings, packages, rq, snap, today, gp, cut, magicVars, es>>

\* A pass whose slot cutting never ends: the commit of line 146 is not reached
GenHang ==
    /\ gen.passes < MaxPasses
    /\ \E settings \in ensure_settings(appSettings) :
          /\ Upsert(settings).hangs
          /\ gen' = [passes |-> gen.passes + 1, outcome |-> "hung", day |-> today,
                     settings |-> settings, before |-> classes, alone |-> TRUE,
                     prev |-> [outcome |-> gen.outcome, day |-> gen.day,
                               settings |-> gen.settings]]
    /\ appSettings' = ensure_settings(appSettings)
    /\ UNCHANGED <<members, classes, bookings, packages, rq, snap, today, gp, cut, magicVars, es>>

Settings(weeks_ahead, capacity, dur, coach) ==
    [id |-> 1, weeks_ahead |-> weeks_ahead, personal_capacity |-> capacity,
     personal_duration_min |-> dur, personal_coach |-> coach]

\* The settings the administration stores: hourly slots, 90 minute slots for
\* today only, a duration that passes midnight, a duration of zero
SettingsRows ==
    {Settings(1, 2, 60, ""), Settings(0, 2, 60, "Pat"), Settings(0, 1, 90, "Pat"),
     Settings(MaxWeeks, MaxCapacity, 1000, "Pat"), Settings(1, 2, 0, "")}

\* The settings provider rewrites the AppSettings row
ChangeSettings ==
    /\ gen.passes < MaxPasses
    /\ appSettings # {}
    /\ \E row \in SettingsRows : row \notin appSettings /\ appSettings' = {row}
    /\ UNCHANGED <<members, classes, bookings, packages, rq, snap, today, gen, gp, cut, magicVars, es>>

\* Midnight passes: date.today() (line 130) moves on
Tick ==
    /\ gen.passes < MaxPasses
    /\ today < MaxDay
    /\ today' = today + 1
    /\ UNCHANGED <<members, classes, bookings, packages, rq, snap, appSettings, gen, gp, cut, magicVars, es>>

\* A Personal session made by hand: Monday of the second week, 08:00-09:00
HandMade ==
    [id |-> 1, title |-> "Personal", coach |-> "Zed", date |-> 7, start_time |-> 480,
     end_time |-> 540, capacity |-> 9, location |-> DEFAULT_LOCATION]

\* The store a pass starts from: no session, or one session (made by hand or
\* a Yoga class) that ann has booked with her package
InitGen ==
    /\ members = InitMembers
    /\ packages = {Pkg(1, 1, MaxRemaining, 1)}
    /\ classes \in {{}, {HandMade}, {Yoga(1, 1)}}
    /\ bookings = (IF classes = {} THEN EmptyBag
                   ELSE SetToBag({[member_id |-> 1, class_id |-> 1]}))
    /\ rq = [r \in Reqs |-> IdleReq]
    /\ snap = NoSnap
    /\ appSettings \in {{}} \cup {{row} : row \in SettingsRows}
    /\ today \in 0..MaxDay
    /\ gen = NoPass
    /\ gp = [p \in Passes |-> IdlePass]
    /\ tokens = {} /\ now = 0 /\ logins = << >>
    /\ ml = [r \in Reqs |-> IdleRedeem]
    /\ es = [p \in Callers |-> IdleEnsure]
    /\ cut = NoCut

NextGen == GenPass \/ GenHang \/ ChangeSettings \/ Tick

SpecGen == InitGen /\ [][NextGen]_vars

-----------------------------------------------------------------------------
(* Properties of book *)

BookingCount(rows, class_id) == BagCardinality(BookingsOf(rows, class_id))

\* The request of worker r has been answered
Answered(r) == rq[r].pc = "done"

\* The request of worker r was a POST that found its session and its member
Attempted(r) == Answered(r) /\ rq[r].method = "POST" /\ rq[r].member_id # 0

\* C1: with requests handled one after another, no session ever holds more
\* bookings than its capacity, and a book attempt on a session that already
\* holds capacity-many bookings is answered "Capienza raggiunta" and leaves
\* the bookings as they were.
CapacityNeverExceeded ==
    /\ \A c \in classes : BookingCount(bookings, c.id) <= c.capacity
    /\ \A r \in Reqs, c \in classes :
          (Attempted(r) /\ rq[r].class_id = c.id
             /\ BookingCount(snap.bookings, c.id) >= c.capacity)
          => (rq[r].outcome = "CapacityExceeded" /\ bookings = snap.bookings)

\* C1 witness: a session of capacity N >= 1 holds N bookings and a further
\* attempt has been rejected.
FullSessionRejected ==
    \E r \in Reqs, c \in classes :
        /\ Attempted(r) /\ rq[r].class_id = c.id /\ c.capacity >= 1
        /\ BookingCount(bookings, c.id) = c.capacity
        /\ rq[r].outcome = "CapacityExceeded"

\* C2: with two requests racing for the last seat, exactly one is booked and
\* no session holds more bookings than its capacity.
LastSeatOneWinner ==
    /\ \A c \in classes : BookingCount(bookings, c.id) <= c.capacity
    /\ \A r1, r2 \in Reqs :
          (r1 # r2 /\ Attempted(r1) /\ Attempted(r2)
             /\ rq[r1].class_id = rq[r2].class_id
             /\ rq[r1].member_id # rq[r2].member_id
             /\ rq[r1].loaded = rq[r1].capacity - 1
             /\ rq[r2].loaded = rq[r2].capacity - 1)
          => ~(rq[r1].outcome = "Booked" /\ rq[r2].outcome = "Booked")

\* C3: under any interleaving of book requests the Booking table holds at
\* most one row for a (member, session) pair.
OneBookingPerMemberClass ==
    \A b \in BagToSet(bookings) : CopiesIn(b, bookings) <= 1

\* C3 witness: two requests of the same member for the same session raced past
\* the capacity check; one was booked, the insert of the other was refused.
DuplicateInsertRefused ==
    \E r1, r2 \in Reqs :
        /\ r1 # r2 /\ Attempted(r1) /\ Attempted(r2)
        /\ rq[r1].class_id = rq[r2].class_id /\ rq[r1].member_id = rq[r2].member_id
        /\ rq[r1].loaded = rq[r2].loaded
        /\ rq[r1].outcome = "Booked"
        /\ rq[r2].outcome = "IntegrityError:uq_member_class"

\* The member of the request held a booking of the session when it started
AlreadyHeld(r) ==
    \E b \in BagToSet(snap.bookings) :
        b.member_id = rq[r].member_id /\ b.class_id = rq[r].class_id

\* C4: a book request of a member who already holds a booking of the session
\* is answered AlreadyBooked and leaves the store as it was.
DuplicateEndsAlreadyBooked ==
    \A r \in Reqs :
        (Attempted(r) /\ AlreadyHeld(r))
        => (rq[r].outcome = "AlreadyBooked" /\ Store = snap)

\* C5: a book request of a member whose credit balance is <= 0 is answered
\* InsufficientCredit and leaves the store as it was.
NoCreditEndsInsufficientCredit ==
    \A r \in Reqs :
        (Attempted(r) /\ RemainingEntries(snap.packages, rq[r].member_id) <= 0)
        => (rq[r].outcome = "InsufficientCredit" /\ Store = snap)

\* C6: a successful book request has taken exactly 1 from the remaining count
\* of the member's most recently activated package, which stays >= 0.
BookingConsumesOneCredit ==
    \A r \in Reqs :
        (Attempted(r) /\ rq[r].outcome = "Booked")
        => /\ member_remaining_entries(rq[r].member_id)
                = RemainingEntries(snap.packages, rq[r].member_id) - 1
           /\ member_remaining_entries(rq[r].member_id) >= 0

\* C7: a book request rejected because the session is full leaves the whole
\* store as it was when the request started.
FullRejectionChangesNothing ==
    \A r \in Reqs :
        (Answered(r) /\ rq[r].outcome = "CapacityExceeded") => Store = snap

\* C7 witness: the rejected request had created and flushed a Member row.
FullRejectionAfterMemberFlush ==
    \E r \in Reqs :
        /\ Answered(r) /\ rq[r].outcome = "CapacityExceeded"
        /\ rq[r].new_member /\ rq[r].member_id \notin {m.id : m \in members}

-----------------------------------------------------------------------------
(* upsert_personal_slots, statement by statement, in concurrent processes *)

\* lines 132-133: the (day, start, end) of every iteration of the two loops,
\* in order; a hang of slot_ranges_for_personal hangs the pass
RECURSIVE Iterations(_, _, _, _)
Iterations(days, i, dur, acc) ==
    IF i > Len(days) THEN [todo |-> acc, hangs |-> FALSE]
    ELSE LET r == slot_ranges_for_personal(days[i], dur)
         IN  IF r.hangs THEN [todo |-> acc, hangs |-> TRUE]
             ELSE Iterations(days, i + 1, dur,
                     acc \o [k \in 1..Len(r.slots) |-> <<days[i], r.slots[k][1], r.slots[k][2]>>])

InFlight == {q \in Passes : gp[q].pc # "idle"}

AllGenPending == UNION {gp[q].pending : q \in Passes}

\* lines 129-131: the settings and the day are read
PassBegin(p) ==
    /\ gp[p].pc = "idle"
    /\ gen.passes + Cardinality(InFlight) < MaxConcPasses
    /\ \E settings \in ensure_settings(appSettings) :
          LET r == Iterations(daterange(today, today + 7 * settings.weeks_ahead), 1,
                              settings.personal_duration_min, << >>)
          IN  gp' = [q \in Passes |->
                       IF q = p
                       THEN [pc |-> IF r.hangs THEN "hung" ELSE "loop",
                             settings |-> settings, day |-> today, todo |-> r.todo,
                             pending |-> {}, alone |-> InFlight = {}]
                       ELSE IF q \in InFlight THEN [gp[q] EXCEPT !.alone = FALSE]
                       ELSE gp[q]]
    /\ appSettings' = ensure_settings(appSettings)
    /\ UNCHANGED <<bookVars, today, gen, cut, magicVars, es>>

\* lines 134-145: one iteration; the exists query sees the committed rows and
\* the rows this pass has added, not the uncommitted rows of another pass
PassSlot(p) ==
    /\ gp[p].pc = "loop" /\ gp[p].todo # << >>
    /\ LET t == Head(gp[p].todo)
           new == PersonalSession(NextId(classes \cup AllGenPending), gp[p].settings,
                                  t[1], t[2], t[3])
       IN  gp' = [gp EXCEPT ![p].todo = Tail(gp[p].todo),
                            ![p].pending =
                                IF PersonalExists(classes \cup gp[p].pending, t[1], t[2], t[3])
                                THEN gp[p].pending ELSE gp[p].pending \cup {new}]
    /\ UNCHANGED <<bookVars, appSettings, today, gen, cut, magicVars, es>>

\* line 146: the rows added are committed
PassCommit(p) ==
    /\ gp[p].pc = "loop" /\ gp[p].todo = << >>
    /\ classes' = SessionCommit(classes, gp[p].pending)
    /\ gen' = [passes |-> gen.passes + 1, outcome |-> "done", day |-> gp[p].day,
               settings |-> gp[p].settings, before |-> classes, alone |-> gp[p].alone,
               prev |-> [outcome |-> gen.outcome, day |-> gen.day, settings |-> gen.settings]]
    /\ gp' = [gp EXCEPT ![p] = IdlePass]
    /\ UNCHANGED <<members, bookings, packages, rq, snap, appSettings, today, cut, magicVars, es>>

\* the process of a pass that hangs is stopped: nothing is committed
PassAbort(p) ==
    /\ gp[p].pc = "hung"
    /\ gen' = [passes |-> gen.passes + 1, outcome |-> "hung", day |-> gp[p].day,
               settings |-> gp[p].settings, before |-> classes, alone |-> gp[p].alone,
               prev |-> [outcome |-> gen.outcome, day |-> gen.day, settings |-> gen.settings]]
    /\ gp' = [gp EXCEPT ![p] = IdlePass]
    /\ UNCHANGED <<bookVars, appSettings, today, cut, magicVars, es>>

\* A Saturday; the settings hold today only: hourly slots, or a zero duration
InitGenConc ==
    /\ members = {} /\ bookings = EmptyBag /\ packages = {}
    /\ classes \in {{}, {Yoga(1, 1)}}
    /\ rq = [r \in Reqs |-> IdleReq]
    /\ snap = NoSnap
    /\ appSettings \in {{Settings(0, 2, 60, "")}, {Settings(0, 1, 60, "Pat")},
                        {Settings(0, 2, 0, "")}}
    /\ today = 5
    /\ gen = NoPass
    /\ gp = [p \in Passes |-> IdlePass]
    /\ tokens = {} /\ now = 0 /\ logins = << >>
    /\ ml = [r \in Reqs |-> IdleRedeem]
    /\ es = [p \in Callers |-> IdleEnsure]
    /\ cut = NoCut

NextGenConc ==
    \/ \E p \in Passes : PassBegin(p)
    \/ \E p \in Passes : PassSlot(p)
    \/ \E p \in Passes : PassCommit(p)
    \/ \E p \in Passes : PassAbort(p)

SpecGenConc == InitGenConc /\ [][NextGenConc]_vars

-----------------------------------------------------------------------------
(* Properties of upsert_personal_slots *)

\* The "Personal" sessions of the default location with the given date and times
PersonalAt(rows, d, start, end) ==
    {c \in rows : /\ c.title = "Personal" /\ c.date = d /\ c.start_time = start
                  /\ c.end_time = end /\ c.location = DEFAULT_LOCATION}

\* The days of the pass: today .. today + 7 * weeks_ahead
Horizon == gen.day .. (gen.day + 7 * gen.settings.weeks_ahead)

\* The latest pass completed right after a completed pass on the same day
\* with the same settings
RepeatedPass ==
    /\ gen.passes >= 2 /\ gen.outcome = "done" /\ gen.prev.outcome = "done"
    /\ gen.prev.day = gen.day /\ gen.prev.settings = gen.settings

\* C8: a pass that follows a pass of the same day with the same settings adds
\* no ClassSession row.
SecondPassAddsNothing == RepeatedPass => classes = gen.before

\* C8 witness: the second pass ran over sessions the first had generated.
SecondPassOverGenerated ==
    /\ RepeatedPass
    /\ \E c \in gen.before : c.title = "Personal" /\ c # HandMade

\* C9: after a completed pass that ran alone, every slot of every day of the horizon has
\* exactly one "Personal" session of the default location, the rows the pass
\* created carry the capacity and the coach of the settings it read, and
\* every row it created lies in the horizon.
PassFillsHorizon ==
    (gen.outcome = "done" /\ gen.alone) =>
        /\ \A d \in Horizon :
              LET slots == slot_ranges_for_personal(d, gen.settings.personal_duration_min).slots
              IN  \A i \in 1..Len(slots) :
                     Cardinality(PersonalAt(classes, d, slots[i][1], slots[i][2])) = 1
        /\ \A c \in classes \ gen.before :
              /\ c.title = "Personal" /\ c.location = DEFAULT_LOCATION
              /\ c.capacity = gen.settings.personal_capacity
              /\ c.coach = OrNone(gen.settings.personal_coach)
              /\ c.date \in Horizon

\* C13: a completed pass only inserts ClassSession rows: every ClassSession
\* row that existed before it is still there with the same columns, and no
\* Member, Booking or Package row is changed, whatever settings it runs under.
PassOnlyInserts ==
    [][(gen'.passes = gen.passes + 1 /\ gen'.outcome = "done") =>
          /\ classes \subseteq classes'
          /\ bookings' = bookings
          /\ packages' = packages
          /\ members' = members]_vars

\* A pass under changed settings ran over a booked session made by hand and
\* over sessions generated with another capacity, and inserted rows
PassAfterSettingsChange ==
    /\ gen.passes = 2 /\ gen.outcome = "done"
    /\ gen.prev.outcome = "done" /\ gen.prev.settings # gen.settings
    /\ HandMade \in gen.before
    /\ \E c \in gen.before \ {HandMade} :
          c.title = "Personal" /\ c.capacity # gen.settings.personal_capacity
    /\ classes # gen.before
    /\ bookings # EmptyBag /\ packages # {}

-----------------------------------------------------------------------------
(* Magic links: magic_login_request (lines 247-283), magic_login_token     *)
(* (lines 285-297)                                                         *)

\* line 264
ttl_minutes == 30

MaxTokens == 2       \* MagicToken rows the model lets exist
MaxNow == 40         \* latest value of datetime.utcnow()

\* lines 252-253, 257-262: the member of the email, or a new one; no phone is
\* submitted
MagicMember(email) ==
    IF \E m \in members : m.email = email
    THEN CHOOSE m \in members : m.email = email
    ELSE [id |-> NextId(members), name |-> "Cliente", email |-> email]

\* lines 249-266: POST /login-magic with an email; the token is a fresh value
MagicLoginRequest(email) ==
    /\ Cardinality(tokens) < MaxTokens
    /\ members' = SessionCommit(members, {MagicMember(email)})
    /\ tokens' = SessionCommit(tokens,
                     {[token |-> Cardinality(tokens) + 1,
                       member_id |-> MagicMember(email).id,
                       expires_at |-> now + ttl_minutes, used |-> FALSE]})
    /\ UNCHANGED <<classes, bookings, packages, rq, snap, genVars, cut, now, ml, logins, es>>

\* lines 287-289: the token row is read into the session of the request
MagicRead(r, token) ==
    /\ ml[r].pc = "idle"
    /\ IF \E t \in tokens : t.token = token
       THEN ml' = [ml EXCEPT ![r] = [pc |-> "check", token |-> token,
                                     mt |-> CHOOSE t \in tokens : t.token = token,
                                     outcome |-> ""]]
       ELSE ml' = [ml EXCEPT ![r] = [pc |-> "done", token |-> token, mt |-> None,
                                     outcome |-> "Invalid"]]
    /\ UNCHANGED <<bookVars, genVars, cut, tokens, now, logins, es>>

\* lines 290-294: the checks on the row read, then session["member_id"] is set
MagicCheck(r) ==
    /\ ml[r].pc = "check"
    /\ IF ml[r].mt.used
       THEN /\ ml' = [ml EXCEPT ![r].pc = "done", ![r].outcome = "AlreadyUsed"]
            /\ UNCHANGED logins
       ELSE IF now > ml[r].mt.expires_at
       THEN /\ ml' = [ml EXCEPT ![r].pc = "done", ![r].outcome = "Expired"]
            /\ UNCHANGED logins
       ELSE /\ ml' = [ml EXCEPT ![r].pc = "write"]
            /\ logins' = Append(logins, [token |-> ml[r].token,
                                         member_id |-> ml[r].mt.member_id, at |-> now])
    /\ UNCHANGED <<bookVars, genVars, cut, tokens, now, es>>

\* line 295: mt.used = True and the commit
MagicWrite(r) ==
    /\ ml[r].pc = "write"
    /\ tokens' = {IF t.token = ml[r].token THEN [t EXCEPT !.used = TRUE] ELSE t :
                     t \in tokens}
    /\ ml' = [ml EXCEPT ![r].pc = "done", ![r].outcome = "LoggedIn"]
    /\ UNCHANGED <<bookVars, genVars, cut, now, logins, es>>

\* lines 289, 291, 293, 297: the redirect
MagicReturn(r) ==
    /\ ml[r].pc = "done"
    /\ ml' = [ml EXCEPT ![r] = IdleRedeem]
    /\ UNCHANGED <<bookVars, genVars, cut, tokens, now, logins, es>>

\* Time passes
ClockTick ==
    /\ now + 20 <= MaxNow
    /\ now' = now + 20
    /\ UNCHANGED <<bookVars, genVars, cut, tokens, ml, logins, es>>

InitMagic ==
    /\ members = InitMembers
    /\ classes = {} /\ bookings = EmptyBag /\ packages = {}
    /\ rq = [r \in Reqs |-> IdleReq]
    /\ snap = NoSnap
    /\ appSettings = {}
    /\ today = 0
    /\ gen = NoPass
    /\ gp = [p \in Passes |-> IdlePass]
    /\ cut = NoCut
    /\ tokens = {} /\ now = 0 /\ logins = << >>
    /\ ml = [r \in Reqs |-> IdleRedeem]
    /\ es = [p \in Callers |-> IdleEnsure]

NextMagic ==
    \/ \E email \in Emails : MagicLoginRequest(email)
    \/ \E r \in Reqs, token \in 1..(MaxTokens + 1) : MagicRead(r, token)
    \/ \E r \in Reqs : MagicCheck(r)
    \/ \E r \in Reqs : MagicWrite(r)
    \/ \E r \in Reqs : MagicReturn(r)
    \/ ClockTick

SpecMagic == InitMagic /\ [][NextMagic]_vars

\* The member sessions opened with a token
LoginsOf(token) == {i \in 1..Len(logins) : logins[i].token = token}

\* C14: over any interleaving of redemption requests a token opens a member
\* session at most once, and never after its expires_at.
TokenUsableOnce ==
    \A t \in tokens :
       /\ Cardinality(LoginsOf(t.token)) <= 1
       /\ \A i \in LoginsOf(t.token) : logins[i].at <= t.expires_at

-----------------------------------------------------------------------------
(* ensure_settings (lines 101-107), statement by statement *)

\* line 102: AppSettings.query.first(); the query has no ORDER BY, any row
\* of the table may come back
EnsureRead(p) ==
    /\ es[p].pc = "idle"
    /\ IF appSettings = {}
       THEN es' = [es EXCEPT ![p] = [pc |-> "add", s |-> None]]
       ELSE \E row \in appSettings : es' = [es EXCEPT ![p] = [pc |-> "return", s |-> row]]
    /\ UNCHANGED <<bookVars, appSettings, today, gen, gp, cut, magicVars>>

\* lines 104-106: a row of column defaults is added and committed
EnsureAdd(p) ==
    /\ es[p].pc = "add"
    /\ LET row == [DefaultSettings EXCEPT !.id = NextId(appSettings)] IN
       /\ appSettings' = SessionCommit(appSettings, {row})
       /\ es' = [es EXCEPT ![p] = [pc |-> "return", s |-> row]]
    /\ UNCHANGED <<bookVars, today, gen, gp, cut, magicVars>>

\* line 107
EnsureReturn(p) ==
    /\ es[p].pc = "return"
    /\ es' = [es EXCEPT ![p] = IdleEnsure]
    /\ UNCHANGED <<bookVars, appSettings, today, gen, gp, cut, magicVars>>

InitEnsure ==
    /\ members = {} /\ classes = {} /\ bookings = EmptyBag /\ packages = {}
    /\ rq = [r \in Reqs |-> IdleReq]
    /\ snap = NoSnap
    /\ appSettings \in {{}} \cup {{row} : row \in SettingsRows}
    /\ today = 0
    /\ gen = NoPass
    /\ gp = [p \in Passes |-> IdlePass]
    /\ cut = NoCut
    /\ tokens = {} /\ now = 0 /\ logins = << >>
    /\ ml = [r \in Reqs |-> IdleRedeem]
    /\ es = [p \in Callers |-> IdleEnsure]

NextEnsure ==
    \/ \E p \in Callers : EnsureRead(p)
    \/ \E p \in Callers : EnsureAdd(p)
    \/ \E p \in Callers : EnsureReturn(p)

SpecEnsure == InitEnsure /\ [][NextEnsure]_vars

\* C15: once a call of ensure_settings has got its row, and from then on,
\* the AppSettings table holds exactly one row, however the calls interleave.
ExactlyOneSettingsRow ==
    /\ Cardinality(appSettings) <= 1
    /\ (\E p \in Callers : es[p].pc = "return") => Cardinality(appSettings) = 1

-----------------------------------------------------------------------------
(* Pages and lookups of book *)

\* C16: the spots-left value of a page shown for a session (line 317, line
\* 323) is the capacity minus the number of bookings of the session and is
\* never negative, also after racing book requests.
SpotsLeftNeverNegative ==
    \A r \in Reqs :
       (Answered(r) /\ rq[r].outcome = "Page") =>
           /\ rq[r].spots_left = rq[r].capacity - rq[r].loaded
           /\ rq[r].spots_left >= 0

\* C20: a successful book request submitted with a non-empty email records
\* the booking for a member whose email is that email: the name looks the
\* member up only when no email is submitted.
BookedForEmailMember ==
    \A r \in Reqs :
       (Answered(r) /\ rq[r].outcome = "Booked" /\ rq[r].email # "") =>
           /\ [member_id |-> rq[r].member_id, class_id |-> rq[r].class_id]
                  \in BagToSet(bookings)
           /\ \E m \in members : m.id = rq[r].member_id /\ m.email = rq[r].email

-----------------------------------------------------------------------------
(* Overlapping passes, long durations *)

\* C18: when passes of upsert_personal_slots overlap, the store never holds
\* two "Personal" sessions with the same date, start_time, end_time and
\* location.
NoDuplicatePersonal ==
    \A c1, c2 \in classes :
       (/\ c1.title = "Personal" /\ c2.title = "Personal"
        /\ c1.date = c2.date /\ c1.start_time = c2.start_time
        /\ c1.end_time = c2.end_time /\ c1.location = c2.location) => c1 = c2

\* C19: for a positive duration the loop appends at most
\* floor((end_h - start_h) * 60 / duration) slots for a block, so it ends.
SlotCountBounded ==
    (cut.pc = "loop" /\ cut.dur > 0) =>
        Len(BlockSlots) <= ((cut.end_h - cut.start_h) * 60) \div cut.dur

-----------------------------------------------------------------------------
(* Deleting a session *)

\* The administration deletes a session: db.session.delete(cs) and the commit;
\* the cascade of line 45 deletes the bookings of cs in the same transaction
DeleteSession(class_id) ==
    /\ \E c \in classes : c.id = class_id
    /\ classes' = {c \in classes : c.id # class_id}
    /\ bookings' = CascadeDelete(bookings, class_id)
    /\ UNCHANGED <<members, packages, rq, snap, genVars, cut, magicVars, es>>

InitDelete ==
    /\ members = InitMembers
    /\ classes = {Yoga(1, MaxCapacity), Yoga(2, 1)}
    /\ bookings = EmptyBag
    /\ packages = {}
    /\ rq = [r \in Reqs |-> IdleReq]
    /\ snap = NoSnap
    /\ appSettings = {}
    /\ today = 0
    /\ gen = NoPass
    /\ gp = [p \in Passes |-> IdlePass]
    /\ cut = NoCut
    /\ tokens = {} /\ now = 0 /\ logins = << >>
    /\ ml = [r \in Reqs |-> IdleRedeem]
    /\ es = [p \in Callers |-> IdleEnsure]

\* Book requests handled concurrently, and deletions at any moment
NextDelete ==
    \/ NextConc
    \/ \E class_id \in ClassIds : DeleteSession(class_id)

SpecDelete == InitDelete /\ [][NextDelete]_vars

====
